---- MODULE Spec2Model ----
(***************************************************************************)
(* A model of pyinputplus: the limit/timeout evaluator                     *)
(* (_check_limit_and_timeout), the prompt-validate-retry loop              *)
(* (_generic_input) of core.py, and the result handling of the wrappers of *)
(* inputs.py that post-process the loop's result themselves.               *)
(*                                                                         *)
(* Values.  A Python value is a sequence of tags: a line typed by the user *)
(* is <<"5">>, the result of a caller-supplied function f on v is          *)
(* <<"f">> \o v.  An optional argument is None (the empty sequence) or a   *)
(* one-element sequence <<x>>.                                             *)
(***************************************************************************)
EXTENDS Integers, Sequences, FiniteSets, TLC

VARIABLES
    \* configuration of one _generic_input call (core.py 54-63)
    default_value, timeout, limit, apply_func, post_validate_apply_func,
    password_mask,
    \* the parameters whose argument is of a type the checks at core.py 88-103
    \* reject (a prompt that is no str, a validation_func that is not callable)
    ill_typed,
    \* the wall clock read by time.time()
    now,
    \* locals of _generic_input; exc is the exception last raised by a
    \* caller-supplied function (the one caught at line 132, or in flight)
    pc, start_time, tries, user_input, exc, limit_or_timeout_error,
    \* how the call ended
    outcome, via,
    \* history: the argument the post-validation transform was called on, the
    \* clock reading and the tries of the last evaluator call (line 45), the
    \* clock reading of the post-read check (line 158), whether the current
    \* attempt passed validation
    post_arg, eval_time, eval_tries, check_time, validated,
    \* the current attempt: the reads completed so far, the line read last and
    \* the clock when it was read, the read functions called so far (input,
    \* pwinput), the value validation_func was called on and what it returned
    \* (core.py 127)
    reads, line, read_time, primitives, validation_arg, possible_new_user_input,
    \* what the user sees: the last thing printed (the prompt, line 114, or
    \* the message of the validation exception, line 143) and the number of
    \* messages printed
    displayed, messages,
    \* the calls made to the evaluator: arguments, clock reading, answer
    ev_log,
    \* a wrapper of inputs.py handling the loop's result
    wrapper, postValidateApplyFunc, w_pc, result, w_post_arg, w_outcome,
    \* a call of a wrapper: the arguments the caller passed explicitly, the
    \* values of the wrapper's parameters, the keywords of the call it makes
    \* to _generic_input, and inputChoice's choices and caseSensitive
    explicit, args, kwargs, choices, caseSensitive,
    \* invocations of _generic_input running side by side: the parameters and
    \* locals of each (a function from the invocation to a record)
    calls

cfg_vars  == <<default_value, timeout, limit, apply_func,
               post_validate_apply_func, password_mask, ill_typed>>
loop_vars == <<pc, start_time, tries, user_input, exc, limit_or_timeout_error,
               outcome, via>>
hist_vars == <<post_arg, eval_time, eval_tries, check_time, validated>>
attempt_vars == <<reads, line, read_time, primitives, validation_arg,
                  possible_new_user_input, displayed, messages>>
call_vars == <<explicit, args, kwargs, choices, caseSensitive>>
wrap_vars == <<wrapper, postValidateApplyFunc, w_pc, result, w_post_arg,
               w_outcome, call_vars>>
vars == <<cfg_vars, now, loop_vars, hist_vars, attempt_vars, ev_log,
          wrap_vars, calls>>

(***************************************************************************)
(* Bounds of the model.                                                    *)
(***************************************************************************)
MaxClock   == 3   \* the clock runs from 0 to MaxClock
MaxTimeout == 2   \* timeout is None or 0..MaxTimeout seconds
MaxLimit   == 2   \* limit is None or 0..MaxLimit
MaxTries   == 3   \* reads of one invocation when no budget ends it earlier
MaxCalls   == 2   \* calls of the evaluator on its own
MaxIllTyped == 2  \* arguments of a wrong type in one call

(***************************************************************************)
(* Values, optional arguments, exceptions.                                 *)
(***************************************************************************)
None == <<>>
Some(x) == <<x>>

\* the lines a user may type
Inputs == {<<"5">>, <<"abc">>}
\* default values a caller may configure: none, a falsy one, a truthy one
Defaults == {None, <<"">>, <<"N/A">>}
\* a caller-supplied function is absent (None) or present
Callables == {None, <<"f">>}
\* masks: absent, blank, one character, two characters
Masks == {None, <<"">>, <<"*">>, <<"**">>}
\* the parameters of _generic_input whose type is checked
TypedParams == {"prompt", "timeout", "limit", "validation_func", "apply_func",
                "post_validate_apply_func", "password_mask"}

\* exceptions a validation function raises (all derive from Exception):
\* exceptions.ValidationError, or any Exception of a custom validator
ValidatorErrors == {"ValidationError", "Exception"}

\* no invocations side by side
NoCalls == <<>>

NoOutcome     == [kind |-> "none",   value |-> None, exc |-> ""]
Return(v)     == [kind |-> "return", value |-> v,    exc |-> ""]
Raise(e)      == [kind |-> "raise",  value |-> None, exc |-> e]

(***************************************************************************)
(* The clock.  time.time() reads it; it advances between any two steps of  *)
(* the program (a slow human, a slow validator).                           *)
(***************************************************************************)
time_time == now

Tick ==
    /\ pc # "done"
    /\ now < MaxClock
    /\ now' = now + 1
    /\ UNCHANGED <<cfg_vars, loop_vars, hist_vars, ev_log, attempt_vars,
                   wrap_vars, calls>>

(***************************************************************************)
(* _check_limit_and_timeout (core.py 29-51): the exception it returns, by  *)
(* class name, or "None".                                                  *)
(***************************************************************************)
\* mutant: elapsed time equal to the timeout counted as a timeout
_check_limit_and_timeout_Inclusive(st, to, tr, lim) ==
    IF to # None /\ st + to[1] <= time_time THEN "PyIPTimeoutError"
    ELSE IF lim # None /\ tr >= lim[1] THEN "RetryLimitError"
    ELSE "None"

\* mutant: the retry limit reached only when tries is above it
_check_limit_and_timeout_StrictLimit(st, to, tr, lim) ==
    IF to # None /\ st + to[1] < time_time THEN "PyIPTimeoutError"
    ELSE IF lim # None /\ tr > lim[1] THEN "RetryLimitError"
    ELSE "None"

\* mutant: the retry limit reached one attempt early
_check_limit_and_timeout_OffByOne(st, to, tr, lim) ==
    IF to # None /\ st + to[1] < time_time THEN "PyIPTimeoutError"
    ELSE IF lim # None /\ tr + 1 >= lim[1] THEN "RetryLimitError"
    ELSE "None"

\* mutant: the timeout test (core.py 45-46) left out
_check_limit_and_timeout_NoTimeout(st, to, tr, lim) ==
    IF lim # None /\ tr >= lim[1] THEN "RetryLimitError"
    ELSE "None"

\* mutant: a limit of 0 or less taken for no limit
_check_limit_and_timeout_PositiveLimit(st, to, tr, lim) ==
    IF to # None /\ st + to[1] < time_time THEN "PyIPTimeoutError"
    ELSE IF lim # None /\ lim[1] > 0 /\ tr >= lim[1] THEN "RetryLimitError"
    ELSE "None"

\* mutant: the retry limit test (core.py 48-49) left out
_check_limit_and_timeout_NoLimit(st, to, tr, lim) ==
    IF to # None /\ st + to[1] < time_time THEN "PyIPTimeoutError"
    ELSE "None"

\* mutant: the retry limit reached only when tries equals it
_check_limit_and_timeout_ExactLimit(st, to, tr, lim) ==
    IF to # None /\ st + to[1] < time_time THEN "PyIPTimeoutError"
    ELSE IF lim # None /\ tr = lim[1] THEN "RetryLimitError"
    ELSE "None"

\* mutant: the retry limit tested before the timeout
_check_limit_and_timeout_LimitFirst(st, to, tr, lim) ==
    IF lim # None /\ tr >= lim[1] THEN "RetryLimitError"
    ELSE IF to # None /\ st + to[1] < time_time THEN "PyIPTimeoutError"
    ELSE "None"

_check_limit_and_timeout(st, to, tr, lim) ==
    IF to # None /\ st + to[1] < time_time THEN "PyIPTimeoutError"
    ELSE IF lim # None /\ tr >= lim[1] THEN "RetryLimitError"
    ELSE "None"

\* mutant: the evaluator counts the attempt itself
EvaluatorCall_CountsTry ==
    /\ pc = "evaluator"
    /\ Len(ev_log) < MaxCalls
    /\ ev_log' = Append(ev_log,
           [args   |-> <<start_time, timeout, tries, limit>>,
            time   |-> time_time,
            answer |-> _check_limit_and_timeout(start_time, timeout, tries,
                                                limit)])
    /\ tries' = tries + 1
    /\ UNCHANGED <<cfg_vars, now, pc, start_time, user_input, exc,
                   limit_or_timeout_error, outcome, via, hist_vars,
                   attempt_vars, wrap_vars, calls>>

\* one call of _check_limit_and_timeout (core.py 29-51) on its own: the
\* arguments it was given, the clock it read and its answer are logged
EvaluatorCall ==
    /\ pc = "evaluator"
    /\ Len(ev_log) < MaxCalls
    /\ ev_log' = Append(ev_log,
           [args   |-> <<start_time, timeout, tries, limit>>,
            time   |-> time_time,
            answer |-> _check_limit_and_timeout(start_time, timeout, tries,
                                                limit)])
    /\ UNCHANGED <<cfg_vars, now, loop_vars, hist_vars, attempt_vars, wrap_vars, calls>>

\* mutant: only the timeout is taken for an exception
IsException_TimeoutOnly(e) == e = "PyIPTimeoutError"

\* isinstance(limit_or_timeout_error, Exception), core.py 146
IsException(e) == e \in {"PyIPTimeoutError", "RetryLimitError"}

\* mutant: the default returned whether it is None or not
HasDefault_Always(d) == TRUE

\* mutant: the default tested for truth ("if default_value:")
HasDefault_Truthy(d) == d # None /\ d # <<"">>

\* "default_value is not None", core.py 147 and 162
HasDefault(d) == d # None

(***************************************************************************)
(* _generic_input (core.py 54-168).                                        *)
(***************************************************************************)
\* mutant: the check that validation_func is callable (core.py 94-95) left out
TypeChecked_NoValidator ==
    {"prompt", "timeout", "limit", "apply_func", "post_validate_apply_func"}

\* core.py 88-101: the parameters whose type is checked before the mask
\* (isinstance / callable); None passes for all but prompt and validation_func
TypeChecked == {"prompt", "timeout", "limit", "validation_func", "apply_func",
                "post_validate_apply_func"}

\* mutant: a mask has to be exactly one character
BadMask_ExactlyOne(m) ==
    m # None /\ ("password_mask" \in ill_typed \/ Len(m[1]) # 1)

\* core.py 102-107: the check of password_mask: not a str, or longer than 1
BadMask(m) == m # None /\ ("password_mask" \in ill_typed \/ Len(m[1]) > 1)

\* mutant: the result is stored but the loop is not left
Finish_KeepsLooping(o, how) ==
    /\ pc' = "prompt"
    /\ outcome' = o
    /\ via' = how

Finish(o, how) ==
    /\ pc' = "done"
    /\ outcome' = o
    /\ via' = how

\* mutant: tries started at 1
ValidateParams_TriesFromOne ==
    /\ pc = "validate_params"
    /\ IF ill_typed \cap TypeChecked # {} \/ BadMask(password_mask)
       THEN /\ Finish(Raise("PyInputPlusError"), "params")
            /\ UNCHANGED <<start_time, tries>>
       ELSE /\ start_time' = time_time
            /\ tries' = 1
            /\ pc' = "prompt"
            /\ UNCHANGED <<outcome, via>>
    /\ UNCHANGED <<cfg_vars, now, user_input, exc, limit_or_timeout_error,
                   hist_vars, ev_log, attempt_vars, wrap_vars, calls>>

\* core.py 87-110: validate the parameters, then start_time and tries
ValidateParams ==
    /\ pc = "validate_params"
    /\ IF ill_typed \cap TypeChecked # {} \/ BadMask(password_mask)
       THEN /\ Finish(Raise("PyInputPlusError"), "params")
            /\ UNCHANGED <<start_time, tries>>
       ELSE /\ start_time' = time_time
            /\ tries' = 0
            /\ pc' = "prompt"
            /\ UNCHANGED <<outcome, via>>
    /\ UNCHANGED <<cfg_vars, now, user_input, exc, limit_or_timeout_error,
                   hist_vars, ev_log, attempt_vars, wrap_vars, calls>>

\* mutant: the mask honoured on the first read only
ReadPrimitive_FirstOnly ==
    IF password_mask = None \/ tries > 0 THEN "input" ELSE "pwinput"

\* core.py 115-118: input() when there is no mask, pwinput.pwinput() when
\* there is one
ReadPrimitive == IF password_mask = None THEN "input" ELSE "pwinput"

\* mutant: the timeout tested before the read, which is given up when the
\* budget is spent
PromptAndRead_Preempted ==
    /\ pc = "prompt"
    /\ tries < MaxTries
    /\ IF timeout # None /\ start_time + timeout[1] < time_time
       THEN /\ Finish(Raise("PyIPTimeoutError"), "timeout_raise")
            /\ UNCHANGED <<user_input, tries, validated, attempt_vars>>
       ELSE /\ \E typed \in Inputs :
                   /\ user_input' = typed
                   /\ line' = typed
            /\ reads' = reads + 1
            /\ read_time' = Some(time_time)
            /\ primitives' = primitives \cup {ReadPrimitive}
            /\ tries' = tries + 1
            /\ validated' = FALSE
            /\ validation_arg' = None
            /\ possible_new_user_input' = None
            /\ displayed' = <<"prompt">>
            /\ pc' = "pre_transform"
            /\ UNCHANGED <<outcome, via, messages>>
    /\ UNCHANGED <<cfg_vars, now, start_time, exc, limit_or_timeout_error,
                   post_arg, eval_time, eval_tries, check_time, ev_log,
                   wrap_vars, calls>>

\* core.py 113-119: print the prompt, read one line, count the attempt
PromptAndRead ==
    /\ pc = "prompt"
    /\ tries < MaxTries
    /\ \E typed \in Inputs :
           /\ user_input' = typed
           /\ line' = typed
    /\ reads' = reads + 1
    /\ read_time' = Some(time_time)
    /\ primitives' = primitives \cup {ReadPrimitive}
    /\ tries' = tries + 1
    /\ validated' = FALSE
    /\ validation_arg' = None
    /\ possible_new_user_input' = None
    /\ displayed' = <<"prompt">>
    /\ pc' = "pre_transform"
    /\ UNCHANGED <<cfg_vars, now, start_time, exc, limit_or_timeout_error,
                   outcome, via, post_arg, eval_time, eval_tries, check_time,
                   ev_log, messages, wrap_vars, calls>>

\* mutant: apply_func called inside the try block, so that what it raises is
\* handled as a validation failure
PreTransform_InsideTry ==
    /\ pc = "pre_transform"
    /\ \/ /\ apply_func = None
          /\ pc' = "validate"
          /\ UNCHANGED <<user_input, exc, outcome, via>>
       \/ /\ apply_func # None
          /\ user_input' = apply_func \o user_input
          /\ pc' = "validate"
          /\ UNCHANGED <<exc, outcome, via>>
       \/ /\ apply_func # None
          /\ exc' = "ApplyFuncError"
          /\ pc' = "check_limit"
          /\ UNCHANGED <<user_input, outcome, via>>
    /\ UNCHANGED <<cfg_vars, now, start_time, tries, limit_or_timeout_error,
                   hist_vars, ev_log, attempt_vars, wrap_vars, calls>>

\* mutant: apply_func called and its result dropped
PreTransform_Discarded ==
    /\ pc = "pre_transform"
    /\ \/ /\ pc' = "validate"
          /\ UNCHANGED <<user_input, exc, outcome, via>>
       \/ /\ apply_func # None
          /\ exc' = "ApplyFuncError"
          /\ Finish(Raise("ApplyFuncError"), "apply_func")
          /\ UNCHANGED user_input
    /\ UNCHANGED <<cfg_vars, now, start_time, tries, limit_or_timeout_error,
                   hist_vars, ev_log, attempt_vars, wrap_vars, calls>>

\* core.py 121-123: the pre-validation transform; what it raises is not caught
PreTransform ==
    /\ pc = "pre_transform"
    /\ \/ /\ apply_func = None
          /\ pc' = "validate"
          /\ UNCHANGED <<user_input, exc, outcome, via>>
       \/ /\ apply_func # None
          /\ user_input' = apply_func \o user_input
          /\ pc' = "validate"
          /\ UNCHANGED <<exc, outcome, via>>
       \/ /\ apply_func # None
          /\ exc' = "ApplyFuncError"
          /\ Finish(Raise("ApplyFuncError"), "apply_func")
          /\ UNCHANGED user_input
    /\ UNCHANGED <<cfg_vars, now, start_time, tries, limit_or_timeout_error,
                   hist_vars, ev_log, attempt_vars, wrap_vars, calls>>

\* mutant: the value returned by validation_func is dropped
Validate_IgnoresReplacement ==
    /\ pc = "validate"
    /\ validation_arg' = user_input
    /\ \/ /\ possible_new_user_input' = None
          /\ pc' = "post_read_check"
          /\ validated' = TRUE
          /\ UNCHANGED <<user_input, exc>>
       \/ /\ possible_new_user_input' = <<"norm">> \o user_input
          /\ pc' = "post_read_check"
          /\ validated' = TRUE
          /\ UNCHANGED <<user_input, exc>>
       \/ /\ \E e \in ValidatorErrors : exc' = e
          /\ pc' = "check_limit"
          /\ UNCHANGED <<user_input, validated, possible_new_user_input>>
    /\ UNCHANGED <<cfg_vars, now, start_time, tries, limit_or_timeout_error,
                   outcome, via, post_arg, eval_time, eval_tries, check_time,
                   ev_log, reads, line, read_time, primitives, displayed, messages,
                   wrap_vars, calls>>

\* core.py 126-132: the validation function returns None, returns a
\* replacement, or raises (caught by "except Exception")
Validate ==
    /\ pc = "validate"
    /\ validation_arg' = user_input
    /\ \/ /\ possible_new_user_input' = None
          /\ pc' = "post_read_check"
          /\ validated' = TRUE
          /\ UNCHANGED <<user_input, exc>>
       \/ /\ possible_new_user_input' = <<"norm">> \o user_input
          /\ user_input' = possible_new_user_input'
          /\ pc' = "post_read_check"
          /\ validated' = TRUE
          /\ UNCHANGED exc
       \/ /\ \E e \in ValidatorErrors : exc' = e
          /\ pc' = "check_limit"
          /\ UNCHANGED <<user_input, validated, possible_new_user_input>>
    /\ UNCHANGED <<cfg_vars, now, start_time, tries, limit_or_timeout_error,
                   outcome, via, post_arg, eval_time, eval_tries, check_time,
                   ev_log, reads, line, read_time, primitives, displayed, messages,
                   wrap_vars, calls>>

\* mutant: the clock started again at each failed attempt
CheckLimitAndTimeout_ResetsClock ==
    /\ pc = "check_limit"
    /\ limit_or_timeout_error' =
           _check_limit_and_timeout(start_time, timeout, tries, limit)
    /\ eval_time' = Some(time_time)
    /\ eval_tries' = tries
    /\ start_time' = time_time
    /\ pc' = "on_failure"
    /\ UNCHANGED <<cfg_vars, now, tries, user_input, exc, outcome,
                   via, post_arg, check_time, validated, ev_log,
                   attempt_vars, wrap_vars, calls>>

\* core.py 136-141: ask the evaluator
CheckLimitAndTimeout ==
    /\ pc = "check_limit"
    /\ limit_or_timeout_error' =
           _check_limit_and_timeout(start_time, timeout, tries, limit)
    /\ eval_time' = Some(time_time)
    /\ eval_tries' = tries
    /\ pc' = "on_failure"
    /\ UNCHANGED <<cfg_vars, now, start_time, tries, user_input, exc, outcome,
                   via, post_arg, check_time, validated, ev_log,
                   attempt_vars, wrap_vars, calls>>

\* mutant: with no default, RetryLimitError raised whatever the evaluator said
OnFailure_AlwaysRetryLimit ==
    /\ pc = "on_failure"
    /\ displayed' = <<"message", exc>>
    /\ messages' = messages + 1
    /\ IF IsException(limit_or_timeout_error)
       THEN IF HasDefault(default_value)
            THEN Finish(Return(default_value), "failure_default")
            ELSE Finish(Raise("RetryLimitError"), "failure_raise")
       ELSE /\ pc' = "prompt"
            /\ UNCHANGED <<outcome, via>>
    /\ UNCHANGED <<cfg_vars, now, start_time, tries, user_input, exc,
                   limit_or_timeout_error, hist_vars, ev_log, reads, line,
                   read_time, primitives, validation_arg, possible_new_user_input,
                   wrap_vars, calls>>

\* mutant: with no default, the validation exception re-raised
OnFailure_Reraise ==
    /\ pc = "on_failure"
    /\ displayed' = <<"message", exc>>
    /\ messages' = messages + 1
    /\ IF IsException(limit_or_timeout_error)
       THEN IF HasDefault(default_value)
            THEN Finish(Return(default_value), "failure_default")
            ELSE Finish(Raise(exc), "failure_raise")
       ELSE /\ pc' = "prompt"
            /\ UNCHANGED <<outcome, via>>
    /\ UNCHANGED <<cfg_vars, now, start_time, tries, user_input, exc,
                   limit_or_timeout_error, hist_vars, ev_log, reads, line,
                   read_time, primitives, validation_arg, possible_new_user_input,
                   wrap_vars, calls>>

\* mutant: a retry is counted as one more try
OnFailure_CountsRetry ==
    /\ pc = "on_failure"
    /\ displayed' = <<"message", exc>>
    /\ messages' = messages + 1
    /\ IF IsException(limit_or_timeout_error)
       THEN /\ IF HasDefault(default_value)
               THEN Finish(Return(default_value), "failure_default")
               ELSE Finish(Raise(limit_or_timeout_error), "failure_raise")
            /\ UNCHANGED tries
       ELSE /\ pc' = "prompt"
            /\ tries' = tries + 1
            /\ UNCHANGED <<outcome, via>>
    /\ UNCHANGED <<cfg_vars, now, start_time, user_input, exc,
                   limit_or_timeout_error, hist_vars, ev_log, reads, line,
                   read_time, primitives, validation_arg, possible_new_user_input,
                   wrap_vars, calls>>

\* mutant: a configured default returned on any failed attempt
OnFailure_DefaultOnFailure ==
    /\ pc = "on_failure"
    /\ displayed' = <<"message", exc>>
    /\ messages' = messages + 1
    /\ IF HasDefault(default_value)
       THEN Finish(Return(default_value), "failure_default")
       ELSE IF IsException(limit_or_timeout_error)
            THEN Finish(Raise(limit_or_timeout_error), "failure_raise")
            ELSE /\ pc' = "prompt"
                 /\ UNCHANGED <<outcome, via>>
    /\ UNCHANGED <<cfg_vars, now, start_time, tries, user_input, exc,
                   limit_or_timeout_error, hist_vars, ev_log, reads, line,
                   read_time, primitives, validation_arg,
                   possible_new_user_input, wrap_vars, calls>>

\* mutant: the message printed only when the invocation ends
OnFailure_SilentRetry ==
    /\ pc = "on_failure"
    /\ IF IsException(limit_or_timeout_error)
       THEN /\ displayed' = <<"message", exc>>
            /\ messages' = messages + 1
            /\ IF HasDefault(default_value)
               THEN Finish(Return(default_value), "failure_default")
               ELSE Finish(Raise(limit_or_timeout_error), "failure_raise")
       ELSE /\ pc' = "prompt"
            /\ UNCHANGED <<outcome, via, displayed, messages>>
    /\ UNCHANGED <<cfg_vars, now, start_time, tries, user_input, exc,
                   limit_or_timeout_error, hist_vars, ev_log, reads, line,
                   read_time, primitives, validation_arg, possible_new_user_input,
                   wrap_vars, calls>>

\* mutant: the message printed only when the user is asked again
OnFailure_SilentEnd ==
    /\ pc = "on_failure"
    /\ IF IsException(limit_or_timeout_error)
       THEN /\ IF HasDefault(default_value)
               THEN Finish(Return(default_value), "failure_default")
               ELSE Finish(Raise(limit_or_timeout_error), "failure_raise")
            /\ UNCHANGED <<displayed, messages>>
       ELSE /\ displayed' = <<"message", exc>>
            /\ messages' = messages + 1
            /\ pc' = "prompt"
            /\ UNCHANGED <<outcome, via>>
    /\ UNCHANGED <<cfg_vars, now, start_time, tries, user_input, exc,
                   limit_or_timeout_error, hist_vars, ev_log, reads, line,
                   read_time, primitives, validation_arg, possible_new_user_input,
                   wrap_vars, calls>>

\* core.py 143-153: show the message, then default, raise or retry
OnFailure ==
    /\ pc = "on_failure"
    /\ displayed' = <<"message", exc>>
    /\ messages' = messages + 1
    /\ IF IsException(limit_or_timeout_error)
       THEN IF HasDefault(default_value)
            THEN Finish(Return(default_value), "failure_default")
            ELSE Finish(Raise(limit_or_timeout_error), "failure_raise")
       ELSE /\ pc' = "prompt"
            /\ UNCHANGED <<outcome, via>>
    /\ UNCHANGED <<cfg_vars, now, start_time, tries, user_input, exc,
                   limit_or_timeout_error, hist_vars, ev_log, reads, line,
                   read_time, primitives, validation_arg, possible_new_user_input,
                   wrap_vars, calls>>

\* mutant: no timeout test after a successful validation
TimedOut_Never == FALSE

\* core.py 158: the timeout test repeated after a successful validation
TimedOut == timeout # None /\ start_time + timeout[1] < time_time

\* mutant: on a timeout after a valid input, the default goes through the
\* post-validation transform
PostReadCheck_TransformsDefault ==
    /\ pc = "post_read_check"
    /\ check_time' = Some(time_time)
    /\ IF TimedOut
       THEN IF HasDefault(default_value)
            THEN IF post_validate_apply_func # None
                 THEN /\ post_arg' = Some(default_value)
                      /\ Finish(Return(post_validate_apply_func
                                          \o default_value), "timeout_default")
                 ELSE /\ Finish(Return(default_value), "timeout_default")
                      /\ UNCHANGED post_arg
            ELSE /\ Finish(Raise("PyIPTimeoutError"), "timeout_raise")
                 /\ UNCHANGED post_arg
       ELSE /\ pc' = "post_transform"
            /\ UNCHANGED <<outcome, via, post_arg>>
    /\ UNCHANGED <<cfg_vars, now, start_time, tries, user_input, exc,
                   limit_or_timeout_error, eval_time, eval_tries,
                   validated, ev_log, attempt_vars, wrap_vars, calls>>

\* mutant: the evaluator, retry limit included, asked after a valid input
PostReadCheck_ChecksLimit ==
    /\ pc = "post_read_check"
    /\ check_time' = Some(time_time)
    /\ LET e == _check_limit_and_timeout(start_time, timeout, tries, limit) IN
       IF IsException(e)
       THEN IF HasDefault(default_value)
            THEN Finish(Return(default_value), "timeout_default")
            ELSE Finish(Raise(e), "timeout_raise")
       ELSE /\ pc' = "post_transform"
            /\ UNCHANGED <<outcome, via>>
    /\ UNCHANGED <<cfg_vars, now, start_time, tries, user_input, exc,
                   limit_or_timeout_error, post_arg, eval_time, eval_tries,
                   validated, ev_log, attempt_vars, wrap_vars, calls>>

\* core.py 155-164: the post-read timeout check
PostReadCheck ==
    /\ pc = "post_read_check"
    /\ check_time' = Some(time_time)
    /\ IF TimedOut
       THEN IF HasDefault(default_value)
            THEN Finish(Return(default_value), "timeout_default")
            ELSE Finish(Raise("PyIPTimeoutError"), "timeout_raise")
       ELSE /\ pc' = "post_transform"
            /\ UNCHANGED <<outcome, via>>
    /\ UNCHANGED <<cfg_vars, now, start_time, tries, user_input, exc,
                   limit_or_timeout_error, post_arg, eval_time, eval_tries,
                   validated, ev_log, attempt_vars, wrap_vars, calls>>

\* mutant: the validated value returned without the post-validation transform
PostTransform_Skipped ==
    /\ pc = "post_transform"
    /\ Finish(Return(user_input), "value")
    /\ UNCHANGED <<cfg_vars, now, start_time, tries, user_input, exc, post_arg,
                   limit_or_timeout_error, eval_time, eval_tries, check_time,
                   validated, ev_log, attempt_vars, wrap_vars, calls>>

\* core.py 166-168: the post-validation transform, or the value as it is
PostTransform ==
    /\ pc = "post_transform"
    /\ \/ /\ post_validate_apply_func = None
          /\ Finish(Return(user_input), "value")
          /\ UNCHANGED <<exc, post_arg>>
       \/ /\ post_validate_apply_func # None
          /\ post_arg' = Some(user_input)
          /\ Finish(Return(post_validate_apply_func \o user_input), "value")
          /\ UNCHANGED exc
       \/ /\ post_validate_apply_func # None
          /\ post_arg' = Some(user_input)
          /\ exc' = "PostFuncError"
          /\ Finish(Raise("PostFuncError"), "post_validate_apply_func")
    /\ UNCHANGED <<cfg_vars, now, start_time, tries, user_input,
                   limit_or_timeout_error, eval_time, eval_tries, check_time,
                   validated, ev_log, attempt_vars, wrap_vars, calls>>

\* the parameters of a wrapper that the loop is concerned with, all at the
\* defaults of the signatures (e.g. inputs.py 13-22)
NoArgs == [default |-> None, timeout |-> None, limit |-> None,
           applyFunc |-> None, mask |-> None]

\* the wrapper variables while no wrapper is modelled
NoWrapper ==
    /\ wrapper = ""
    /\ postValidateApplyFunc = None
    /\ w_pc = "idle"
    /\ result = None
    /\ w_post_arg = None
    /\ w_outcome = NoOutcome
    /\ explicit = {}
    /\ args = NoArgs
    /\ kwargs = {}
    /\ choices = <<>>
    /\ caseSensitive = FALSE

\* no read has been made
NoAttempt ==
    /\ reads = 0
    /\ line = None
    /\ read_time = None
    /\ primitives = {}
    /\ validation_arg = None
    /\ possible_new_user_input = None
    /\ displayed = None
    /\ messages = 0

\* a caller calls _generic_input; up to MaxIllTyped arguments are of a wrong
\* type (an optional argument of a wrong type is not None)
Init ==
    /\ default_value \in Defaults
    /\ timeout \in {None} \cup {Some(t) : t \in 0..MaxTimeout}
    /\ limit \in {None} \cup {Some(l) : l \in -1..MaxLimit}
    /\ apply_func \in Callables
    /\ post_validate_apply_func \in Callables
    /\ password_mask \in Masks
    /\ ill_typed \in {S \in SUBSET TypedParams : Cardinality(S) <= MaxIllTyped}
    /\ "timeout" \in ill_typed => timeout = Some(0)
    /\ "limit" \in ill_typed => limit = Some(0)
    /\ "apply_func" \in ill_typed => apply_func # None
    /\ "post_validate_apply_func" \in ill_typed
           => post_validate_apply_func # None
    /\ "password_mask" \in ill_typed => password_mask = <<"*">>
    /\ NoAttempt
    /\ now = 0
    /\ pc = "validate_params"
    /\ start_time = 0
    /\ tries = 0
    /\ user_input = None
    /\ exc = ""
    /\ limit_or_timeout_error = "None"
    /\ outcome = NoOutcome
    /\ via = ""
    /\ post_arg = None
    /\ eval_time = None
    /\ eval_tries = 0
    /\ check_time = None
    /\ validated = FALSE
    /\ ev_log = <<>>
    /\ calls = NoCalls
    /\ NoWrapper

Next ==
    \/ Tick
    \/ ValidateParams
    \/ PromptAndRead
    \/ PreTransform
    \/ Validate
    \/ CheckLimitAndTimeout
    \/ OnFailure
    \/ PostReadCheck
    \/ PostTransform

Spec == Init /\ [][Next]_vars

(***************************************************************************)
(* The evaluator on its own: its four arguments and the clock are drawn    *)
(* from the bounded sets, and it is called up to MaxCalls times while the  *)
(* clock advances.                                                         *)
(***************************************************************************)
InitEval ==
    /\ default_value = None
    /\ timeout \in {None} \cup {Some(t) : t \in 0..MaxTimeout}
    /\ limit \in {None} \cup {Some(l) : l \in -1..MaxLimit}
    /\ apply_func = None
    /\ post_validate_apply_func = None
    /\ password_mask = None
    /\ ill_typed = {}
    /\ NoAttempt
    /\ now \in 0..MaxClock
    /\ pc = "evaluator"
    /\ start_time \in 0..MaxClock
    /\ tries \in 0..MaxTries
    /\ user_input = None
    /\ exc = ""
    /\ limit_or_timeout_error = "None"
    /\ outcome = NoOutcome
    /\ via = ""
    /\ post_arg = None
    /\ eval_time = None
    /\ eval_tries = 0
    /\ check_time = None
    /\ validated = FALSE
    /\ ev_log = <<>>
    /\ calls = NoCalls
    /\ NoWrapper

NextEval ==
    \/ Tick
    \/ EvaluatorCall

SpecEval == InitEval /\ [][NextEval]_vars

(***************************************************************************)
(* The wrappers of inputs.py that handle the result of _generic_input      *)
(* themselves: inputInt (303-320), inputFloat (379-396), inputMenu         *)
(* (585-610), inputYesNo (1234-1257), inputBool (1310-1331).  They do not  *)
(* pass postValidateApplyFunc to the loop; they convert or validate again  *)
(* what the loop returned and then apply postValidateApplyFunc.            *)
(***************************************************************************)
SelfPostWrappers ==
    {"inputInt", "inputFloat", "inputMenu", "inputYesNo", "inputBool"}

\* the answers each wrapper's validator accepts (a number; a menu choice;
\* yesVal / noVal; trueVal / falseVal)
Accepted(w) ==
    CASE w \in {"inputInt", "inputFloat"} -> {<<"5">>}
      [] w = "inputMenu"  -> {<<"cat">>, <<"dog">>}
      [] w = "inputYesNo" -> {<<"yes">>, <<"no">>}
      [] w = "inputBool"  -> {<<"True">>, <<"False">>}

\* the values _generic_input returns to a wrapper after a valid input: an
\* accepted answer, or a text let through by allowRegexes
Validated(w) == Accepted(w) \cup {<<"abc">>}

\* defaults a caller of a wrapper may configure
WrapperDefaults(w) == Defaults \cup Accepted(w)

\* what the wrapper does to the returned value before postValidateApplyFunc:
\*   inputInt 312-316, inputFloat 388-392: int(float(result)) / float(result),
\*     a ValueError (text that is no number) leaves result as it is;
\*   inputMenu 597-607, inputYesNo 1244-1253, inputBool 1320-1327: the
\*     pysimplevalidate validator again, whose ValidationError is not caught
Convert(w, v) ==
    CASE w = "inputInt" ->
             [ok |-> TRUE,
              value |-> IF v \in Accepted(w) THEN <<"int">> \o v ELSE v]
      [] w = "inputFloat" ->
             [ok |-> TRUE,
              value |-> IF v \in Accepted(w) THEN <<"float">> \o v ELSE v]
      [] w = "inputMenu" ->
             [ok |-> v \in Accepted(w), value |-> <<"choice">> \o v]
      [] w = "inputYesNo" ->
             [ok |-> v \in Accepted(w), value |-> <<"yesno">> \o v]
      [] w = "inputBool" ->
             [ok |-> v \in Accepted(w), value |-> <<"bool">> \o v]

\* the statement after the call of _generic_input
WrapperConvert ==
    /\ w_pc = "returned"
    /\ LET c == Convert(wrapper, result) IN
       IF c.ok
       THEN /\ result' = c.value
            /\ w_pc' = "post_validate"
            /\ UNCHANGED w_outcome
       ELSE /\ w_outcome' = Raise("ValidationError")
            /\ w_pc' = "done"
            /\ UNCHANGED result
    /\ UNCHANGED <<cfg_vars, now, loop_vars, hist_vars, attempt_vars, ev_log,
                   wrapper, postValidateApplyFunc, w_post_arg, call_vars,
                   calls>>

\* "if postValidateApplyFunc is None: return result;
\*  return postValidateApplyFunc(result)", e.g. inputs.py 318-320
WrapperPostValidate ==
    /\ w_pc = "post_validate"
    /\ w_pc' = "done"
    /\ \/ /\ postValidateApplyFunc = None
          /\ w_outcome' = Return(result)
          /\ UNCHANGED w_post_arg
       \/ /\ postValidateApplyFunc # None
          /\ w_post_arg' = Some(result)
          /\ w_outcome' = Return(postValidateApplyFunc \o result)
       \/ /\ postValidateApplyFunc # None
          /\ w_post_arg' = Some(result)
          /\ w_outcome' = Raise("PostFuncError")
    /\ UNCHANGED <<cfg_vars, now, loop_vars, hist_vars, attempt_vars, ev_log,
                   wrapper, postValidateApplyFunc, result, call_vars, calls>>

\* The call of _generic_input made by a wrapper has returned, with a
\* validated value or with the default: the loop's variables hold one of its
\* final states, and the wrapper has assigned the returned value to result.
InitWrapperResult ==
    /\ wrapper \in SelfPostWrappers
    /\ postValidateApplyFunc \in Callables
    /\ default_value \in WrapperDefaults(wrapper)
    /\ timeout = Some(0)
    /\ limit = Some(1)
    /\ apply_func = None
    /\ post_validate_apply_func = None
    /\ password_mask = None
    /\ ill_typed = {}
    /\ start_time = 0
    /\ tries = 1
    /\ reads = 1
    /\ read_time = Some(0)
    /\ primitives = {"input"}
    /\ pc = "done"
    /\ limit_or_timeout_error \in {"None", "PyIPTimeoutError", "RetryLimitError"}
    /\ via \in {"value", "failure_default", "timeout_default"}
    /\ now \in 0..1
    /\ \/ /\ via = "value"
          /\ now = 0
          /\ limit_or_timeout_error = "None"
          /\ validated = TRUE
          /\ exc = ""
          /\ eval_time = None /\ eval_tries = 0
          /\ check_time = Some(now)
          /\ outcome \in {Return(v) : v \in Validated(wrapper)}
       \/ /\ via = "failure_default"
          /\ default_value # None
          /\ limit_or_timeout_error =
                 _check_limit_and_timeout(start_time, timeout, tries, limit)
          /\ validated = FALSE
          /\ exc = "ValidationError"
          /\ eval_time = Some(now) /\ eval_tries = 1
          /\ check_time = None
          /\ outcome = Return(default_value)
       \/ /\ via = "timeout_default"
          /\ default_value # None
          /\ now = 1
          /\ limit_or_timeout_error = "None"
          /\ validated = TRUE
          /\ exc = ""
          /\ eval_time = None /\ eval_tries = 0
          /\ check_time = Some(now)
          /\ outcome = Return(default_value)
    /\ user_input \in Validated(wrapper)
    /\ line = user_input
    /\ validation_arg = user_input
    /\ possible_new_user_input = None
    /\ displayed = IF via = "failure_default" THEN <<"message", exc>>
                   ELSE <<"prompt">>
    /\ messages = IF via = "failure_default" THEN 1 ELSE 0
    /\ explicit = {} /\ kwargs = {}
    /\ args = [NoArgs EXCEPT !.default = default_value, !.timeout = timeout,
                             !.limit = limit]
    /\ choices = <<>> /\ caseSensitive = FALSE
    /\ post_arg = None
    /\ ev_log = <<>>
    /\ calls = NoCalls
    /\ w_pc = "returned"
    /\ result = outcome.value
    /\ w_post_arg = None
    /\ w_outcome = NoOutcome

NextWrapperResult ==
    \/ WrapperConvert
    \/ WrapperPostValidate

SpecWrapperResult == InitWrapperResult /\ [][NextWrapperResult]_vars

(***************************************************************************)
(* The call a wrapper makes to _generic_input.  A caller calls one of the  *)
(* functions of inputs.py; Python binds the wrapper's parameters (an       *)
(* argument the caller left out takes the default of the signature), the   *)
(* wrapper builds its validation closure and calls _generic_input with     *)
(* keyword arguments, which Python binds to the parameters of core.py      *)
(* 54-63 by name: a keyword that is no parameter raises TypeError.         *)
(***************************************************************************)
\* the functions of inputs.py that call _generic_input (inputName,
\* inputAddress and inputPhone raise NotImplementedError)
Wrappers ==
    {"inputStr", "inputCustom", "inputNum", "inputInt", "inputFloat",
     "inputChoice", "inputMenu", "inputDate", "inputDatetime", "inputTime",
     "inputUSState", "inputMonth", "inputDayOfWeek", "inputDayOfMonth",
     "inputIP", "inputRegex", "inputRegexStr", "inputURL", "inputYesNo",
     "inputBool", "inputZip", "inputFilename", "inputFilepath", "inputEmail",
     "inputPassword"}

\* the parameters of _generic_input, core.py 54-63
Parameters ==
    {"prompt", "default_value", "timeout", "limit", "apply_func",
     "validation_func", "post_validate_apply_func", "password_mask"}

\* the keywords of the call each wrapper makes: inputs.py 52-60 and the
\* like; 303-310 and the like pass no postValidateApplyFunc; 1595-1604
\* passes the mask as well
Keywords(w) ==
    {"prompt", "default", "timeout", "limit", "applyFunc", "validationFunc"}
        \cup (IF w \in SelfPostWrappers THEN {}
              ELSE {"postValidateApplyFunc"})
        \cup (IF w = "inputPassword" THEN {"passwordMask"} ELSE {})

\* the default of limit in the signature of a wrapper: "limit=None" in every
\* one of them (inputs.py 17, 69, ..., 1549)
SignatureLimit(w) == None

\* the default of mask: "*" for inputPassword (inputs.py 1545), the only
\* wrapper with a mask
SignatureMask(w) == IF w = "inputPassword" THEN Some("*") ELSE None

\* the wrapper is entered: its parameters are bound, and inputPassword
\* checks its mask (inputs.py 1580-1583)
WrapperEnter ==
    /\ w_pc = "called"
    /\ args' = [args EXCEPT
                    !.limit = IF "limit" \in explicit THEN @
                              ELSE SignatureLimit(wrapper),
                    !.mask  = IF "mask" \in explicit THEN @
                              ELSE SignatureMask(wrapper)]
    /\ IF wrapper = "inputPassword" /\ args'.mask # None
          /\ Len(args'.mask[1]) > 1
       THEN /\ w_outcome' = Raise("PyInputPlusError")
            /\ w_pc' = "done"
       ELSE /\ w_pc' = "body"
            /\ UNCHANGED w_outcome
    /\ UNCHANGED <<cfg_vars, now, loop_vars, hist_vars, attempt_vars, ev_log,
                   wrapper, postValidateApplyFunc, result, w_post_arg,
                   explicit, kwargs, choices, caseSensitive, calls>>

\* "return _generic_input(prompt=prompt, default=default, ...)": each
\* parameter of _generic_input takes the value passed under its own name, or
\* its default None; a keyword that names no parameter is a TypeError
WrapperCall ==
    /\ w_pc = "body"
    /\ kwargs' = Keywords(wrapper)
    /\ IF kwargs' \subseteq Parameters
       THEN /\ default_value' =
                   IF "default_value" \in kwargs' THEN args.default ELSE None
            /\ timeout' = IF "timeout" \in kwargs' THEN args.timeout ELSE None
            /\ limit' = IF "limit" \in kwargs' THEN args.limit ELSE None
            /\ apply_func' =
                   IF "apply_func" \in kwargs' THEN args.applyFunc ELSE None
            /\ post_validate_apply_func' =
                   IF "post_validate_apply_func" \in kwargs'
                   THEN postValidateApplyFunc ELSE None
            /\ password_mask' =
                   IF "password_mask" \in kwargs' THEN args.mask ELSE None
            /\ pc' = "validate_params"
            /\ w_pc' = "in_loop"
            /\ UNCHANGED <<ill_typed, w_outcome>>
       ELSE /\ w_outcome' = Raise("TypeError")
            /\ w_pc' = "done"
            /\ UNCHANGED <<cfg_vars, pc>>
    /\ UNCHANGED <<now, start_time, tries, user_input, exc,
                   limit_or_timeout_error, outcome, via, hist_vars,
                   attempt_vars, ev_log, wrapper, postValidateApplyFunc,
                   result, w_post_arg, explicit, args, choices,
                   caseSensitive, calls>>

\* a caller calls a wrapper, passing limit (and, to inputPassword, mask)
\* explicitly or not
InitWrapperCall ==
    /\ wrapper \in Wrappers
    /\ postValidateApplyFunc \in Callables
    /\ explicit \in SUBSET {"limit", "mask"}
    /\ args \in [default : Defaults,
                  timeout : {None, Some(MaxTimeout)},
                  limit : {None} \cup {Some(l) : l \in 1..MaxLimit},
                  applyFunc : Callables,
                  mask : Masks]
    /\ "limit" \notin explicit => args.limit = None
    /\ "mask" \notin explicit => args.mask = None
    /\ "mask" \in explicit => wrapper = "inputPassword"
    /\ w_pc = "called"
    /\ result = None
    /\ w_post_arg = None
    /\ w_outcome = NoOutcome
    /\ kwargs = {}
    /\ choices = <<>>
    /\ caseSensitive = FALSE
    /\ default_value = None /\ timeout = None /\ limit = None
    /\ apply_func = None /\ post_validate_apply_func = None
    /\ password_mask = None
    /\ ill_typed = {}
    /\ NoAttempt
    /\ now = 0
    /\ pc = "not_called"
    /\ start_time = 0
    /\ tries = 0
    /\ user_input = None
    /\ exc = ""
    /\ limit_or_timeout_error = "None"
    /\ outcome = NoOutcome
    /\ via = ""
    /\ post_arg = None
    /\ eval_time = None
    /\ eval_tries = 0
    /\ check_time = None
    /\ validated = FALSE
    /\ ev_log = <<>>
    /\ calls = NoCalls

NextWrapperCall ==
    \/ WrapperEnter
    \/ WrapperCall

SpecWrapperCall == InitWrapperCall /\ [][NextWrapperCall]_vars

(***************************************************************************)
(* The validation closure of inputChoice (inputs.py 454-464), called on    *)
(* the lines a user types.                                                 *)
(***************************************************************************)
\* str.upper() on the words of the model
Upper(w) ==
    CASE w \in {"dog", "Dog", "DOG"} -> "DOG"
      [] w \in {"cat", "Cat", "CAT"} -> "CAT"
      [] OTHER -> w

\* pysimplevalidate.validateChoice as inputChoice documents it (inputs.py
\* 419-441): with caseSensitive the value has to be one of the choices;
\* without, it has to equal one of them up to letter case, and that choice
\* is returned; anything else raises ValidationError (ok is FALSE)
validateChoice(value, chs, cs) ==
    LET same == {i \in DOMAIN chs :
                    IF cs THEN chs[i] = value
                    ELSE Upper(chs[i]) = Upper(value)}
    IN  IF same = {} THEN [ok |-> FALSE, value |-> None]
        ELSE [ok |-> TRUE,
              value |-> Some(chs[CHOOSE i \in same :
                                    \A j \in same : i <= j])]

\* inputs.py 454-464: the closure inputChoice hands to the loop
validationFunc(value) == validateChoice(value, choices, FALSE)

\* sequences of choices, and the lines typed at the prompt
ChoiceLists == {<<"dog", "cat">>, <<"Dog", "cat">>, <<"cat", "DOG">>,
                <<"dog", "Dog">>}
ChoiceInputs == {<<"dog">>, <<"Dog">>, <<"DOG">>, <<"cat">>, <<"CAT">>,
                 <<"mouse">>}

\* one call of the closure, as the loop makes it at core.py 127-131
ChoiceValidation ==
    /\ w_pc = "closure"
    /\ reads < MaxTries
    /\ \E typed \in ChoiceInputs :
           LET r == validationFunc(typed[1]) IN
           /\ line' = typed
           /\ validation_arg' = typed
           /\ validated' = r.ok
           /\ possible_new_user_input' = r.value
           /\ user_input' = IF r.ok THEN r.value ELSE typed
           /\ exc' = IF r.ok THEN exc ELSE "ValidationError"
    /\ reads' = reads + 1
    /\ tries' = tries + 1
    /\ UNCHANGED <<cfg_vars, now, pc, start_time, limit_or_timeout_error,
                   outcome, via, post_arg, eval_time, eval_tries, check_time,
                   read_time, primitives, displayed, messages, ev_log, wrap_vars, calls>>

\* inputChoice has checked its arguments (inputs.py 443-452: choices that
\* differ only by letter case need caseSensitive) and built the closure
InitChoice ==
    /\ wrapper = "inputChoice"
    /\ choices \in ChoiceLists
    /\ caseSensitive \in BOOLEAN
    /\ ~caseSensitive =>
           \A i, j \in DOMAIN choices :
               Upper(choices[i]) = Upper(choices[j]) => i = j
    /\ postValidateApplyFunc = None
    /\ explicit = {}
    /\ args = NoArgs
    /\ kwargs = {}
    /\ w_pc = "closure"
    /\ result = None
    /\ w_post_arg = None
    /\ w_outcome = NoOutcome
    /\ default_value = None /\ timeout = None /\ limit = None
    /\ apply_func = None /\ post_validate_apply_func = None
    /\ password_mask = None
    /\ ill_typed = {}
    /\ NoAttempt
    /\ now = 0
    /\ pc = "validate"
    /\ start_time = 0
    /\ tries = 0
    /\ user_input = None
    /\ exc = ""
    /\ limit_or_timeout_error = "None"
    /\ outcome = NoOutcome
    /\ via = ""
    /\ post_arg = None
    /\ eval_time = None
    /\ eval_tries = 0
    /\ check_time = None
    /\ validated = FALSE
    /\ ev_log = <<>>
    /\ calls = NoCalls

NextChoice == ChoiceValidation

SpecChoice == InitChoice /\ [][NextChoice]_vars

(***************************************************************************)
(* _generic_input when every call it makes returns: the prompt is shown,   *)
(* the read delivers a line, the transforms and the validation function    *)
(* come back, so the step the program is at is eventually taken.  Nothing  *)
(* makes the clock advance.  The arguments are well typed and the read is  *)
(* the plain one.                                                          *)
(***************************************************************************)
ProgramStep ==
    \/ ValidateParams
    \/ PromptAndRead
    \/ PreTransform
    \/ Validate
    \/ CheckLimitAndTimeout
    \/ OnFailure
    \/ PostReadCheck
    \/ PostTransform

InitLive ==
    /\ Init
    /\ ill_typed = {}
    /\ password_mask = None
    /\ default_value \in {None, <<"N/A">>}

SpecLive == InitLive /\ [][Next]_vars /\ WF_vars(ProgramStep)

(***************************************************************************)
(* Two invocations of _generic_input side by side (two threads).  The      *)
(* parameters and the locals start_time, tries, limit_or_timeout_error of  *)
(* core.py 54-168 belong to the call: each invocation has a record of its  *)
(* own in calls; the clock is the only thing they both read.  The steps of *)
(* the two interleave in every order.                                      *)
(***************************************************************************)
Invocations == {"A", "B"}

\* the configurations of an invocation running beside another: each has a
\* limit, so that each ends
CallConfigs ==
    [timeout : {None, Some(1)},
     limit : {Some(1), Some(MaxLimit)},
     default_value : {None, <<"N/A">>}]

\* an invocation that has been called and has not run yet; entered is the
\* clock at which it passes line 109, reads the reads it has made
NewCall(cfg) ==
    [timeout |-> cfg.timeout, limit |-> cfg.limit,
     default_value |-> cfg.default_value,
     pc |-> "validate_params", start_time |-> 0, tries |-> 0, reads |-> 0,
     entered |-> None, validated |-> FALSE,
     limit_or_timeout_error |-> "None", eval_time |-> None,
     check_time |-> None, outcome |-> NoOutcome]

\* every variable but calls and the clock
single_vars == <<cfg_vars, loop_vars, hist_vars, attempt_vars, ev_log,
                 wrap_vars>>

\* core.py 109-110 in invocation i
CallEnter(i) ==
    /\ calls[i].pc = "validate_params"
    /\ calls' = [calls EXCEPT ![i].start_time = time_time,
                              ![i].entered = Some(time_time),
                              ![i].tries = 0,
                              ![i].pc = "prompt"]
    /\ UNCHANGED <<now, single_vars>>

\* mutant: tries is one counter shared by the invocations
CallRead_SharedTries(i) ==
    /\ calls[i].pc = "prompt"
    /\ calls[i].tries < MaxTries
    /\ calls' = [j \in Invocations |->
                    IF j = i
                    THEN [calls[j] EXCEPT !.reads = @ + 1, !.tries = @ + 1,
                                          !.validated = FALSE,
                                          !.pc = "validate"]
                    ELSE [calls[j] EXCEPT !.tries = @ + 1]]
    /\ UNCHANGED <<now, single_vars>>

\* core.py 113-119 in invocation i: prompt, read, tries += 1
CallRead(i) ==
    /\ calls[i].pc = "prompt"
    /\ calls[i].tries < MaxTries
    /\ calls' = [calls EXCEPT ![i].reads = @ + 1,
                              ![i].tries = @ + 1,
                              ![i].validated = FALSE,
                              ![i].pc = "validate"]
    /\ UNCHANGED <<now, single_vars>>

\* core.py 126-141 in invocation i: the validation function returns, or it
\* raises and the evaluator is asked
CallValidate(i) ==
    /\ calls[i].pc = "validate"
    /\ \/ calls' = [calls EXCEPT ![i].validated = TRUE,
                                 ![i].pc = "post_read_check"]
       \/ calls' = [calls EXCEPT
                       ![i].limit_or_timeout_error =
                           _check_limit_and_timeout(calls[i].start_time,
                               calls[i].timeout, calls[i].tries,
                               calls[i].limit),
                       ![i].eval_time = Some(time_time),
                       ![i].pc = "on_failure"]
    /\ UNCHANGED <<now, single_vars>>

\* core.py 143-153 in invocation i
CallOnFailure(i) ==
    /\ calls[i].pc = "on_failure"
    /\ LET c == calls[i] IN
       calls' = [calls EXCEPT ![i] =
           IF IsException(c.limit_or_timeout_error)
           THEN [c EXCEPT !.pc = "done",
                          !.outcome =
                              IF HasDefault(c.default_value)
                              THEN Return(c.default_value)
                              ELSE Raise(c.limit_or_timeout_error)]
           ELSE [c EXCEPT !.pc = "prompt"]]
    /\ UNCHANGED <<now, single_vars>>

\* core.py 155-168 in invocation i (no post-validation transform)
CallPostRead(i) ==
    /\ calls[i].pc = "post_read_check"
    /\ LET c == calls[i] IN
       calls' = [calls EXCEPT ![i] =
           [c EXCEPT !.pc = "done",
                     !.check_time = Some(time_time),
                     !.outcome =
                         IF c.timeout # None
                            /\ c.start_time + c.timeout[1] < time_time
                         THEN IF HasDefault(c.default_value)
                              THEN Return(c.default_value)
                              ELSE Raise("PyIPTimeoutError")
                         ELSE Return(<<"5">>)]]
    /\ UNCHANGED <<now, single_vars>>

InitTwo ==
    /\ calls \in [Invocations -> {NewCall(cfg) : cfg \in CallConfigs}]
    /\ default_value = None /\ timeout = None /\ limit = None
    /\ apply_func = None /\ post_validate_apply_func = None
    /\ password_mask = None
    /\ ill_typed = {}
    /\ NoAttempt
    /\ NoWrapper
    /\ now = 0
    /\ pc = "concurrent"
    /\ start_time = 0
    /\ tries = 0
    /\ user_input = None
    /\ exc = ""
    /\ limit_or_timeout_error = "None"
    /\ outcome = NoOutcome
    /\ via = ""
    /\ post_arg = None
    /\ eval_time = None
    /\ eval_tries = 0
    /\ check_time = None
    /\ validated = FALSE
    /\ ev_log = <<>>

NextTwo ==
    \/ Tick
    \/ \E i \in Invocations :
           \/ CallEnter(i)
           \/ CallRead(i)
           \/ CallValidate(i)
           \/ CallOnFailure(i)
           \/ CallPostRead(i)

SpecTwo == InitTwo /\ [][NextTwo]_vars

(***************************************************************************)
(* Properties of _generic_input, checked under Spec.                       *)
(***************************************************************************)
BudgetErrors == {"PyIPTimeoutError", "RetryLimitError"}

\* the invocation ended on an attempt whose input failed validation
EndedOnFailure ==
    pc = "done" /\ ~validated /\ exc \in ValidatorErrors /\ eval_tries = tries

\* the invocation ended on an attempt whose input passed validation
EndedOnSuccess == pc = "done" /\ validated /\ check_time # None

\* more than timeout seconds had passed at clock reading t (t is Some(..))
Exceeded(t) == timeout # None /\ t[1] - start_time > timeout[1]

LimitReached == limit # None /\ tries >= limit[1]

\* C1: with a default configured, no invocation ends by raising
\* PyIPTimeoutError or RetryLimitError: when a failed attempt finds a budget
\* exceeded, and when the check after a valid input finds the timeout
\* exceeded, the default is returned.
C1_DefaultReplacesBudgetErrors ==
    default_value # None =>
        /\ ~(outcome.kind = "raise" /\ outcome.exc \in BudgetErrors)
        /\ (EndedOnFailure /\ (Exceeded(eval_time) \/ LimitReached)
                => outcome = Return(default_value))
        /\ (EndedOnSuccess /\ Exceeded(check_time)
                => outcome = Return(default_value))

C1_Witness ==
    /\ default_value = <<"">>
    /\ EndedOnFailure
    /\ LimitReached /\ ~Exceeded(eval_time)
    /\ outcome = Return(default_value)

\* C2: with no default, a failed attempt that finds the timeout exceeded ends
\* in PyIPTimeoutError, one that finds only the retry limit reached ends in
\* RetryLimitError, and the error raised is the one the evaluator returned.
C2_NoDefaultRaisesSignalledError ==
    default_value = None /\ EndedOnFailure =>
        /\ outcome = Raise(limit_or_timeout_error)
        /\ (Exceeded(eval_time) => outcome = Raise("PyIPTimeoutError"))
        /\ (~Exceeded(eval_time) /\ LimitReached
                => outcome = Raise("RetryLimitError"))

C2_Witness ==
    /\ default_value = None
    /\ EndedOnFailure
    /\ Exceeded(eval_time)
    /\ LimitReached
    /\ outcome = Raise("PyIPTimeoutError")

\* C3: the post-validation transform is called only on the value that passed
\* validation on the current attempt and passed the post-read timeout check;
\* on every path that returns the default it is not called, and the default
\* is returned as it is.
C3_PostTransformOnlyOnValidated ==
    /\ post_arg # None =>
           /\ validated
           /\ post_arg = Some(user_input)
           /\ check_time # None /\ ~Exceeded(check_time)
           /\ via \in {"value", "post_validate_apply_func"}
    /\ via \in {"failure_default", "timeout_default"} =>
           /\ post_arg = None
           /\ outcome = Return(default_value)

C3_Witness ==
    /\ post_arg = Some(<<"norm", "f", "5">>)
    /\ default_value # None
    /\ timeout # None
    /\ outcome = Return(<<"f", "norm", "f", "5">>)

\* C7: when a failed attempt finds both the timeout exceeded and the retry
\* limit reached, the evaluator answers with the timeout, and with no default
\* the invocation raises PyIPTimeoutError.
C7_TimeoutPrecedesLimit ==
    /\ eval_tries = tries /\ pc \in {"on_failure", "done"}
    /\ ~validated /\ exc \in ValidatorErrors
    /\ Exceeded(eval_time) /\ LimitReached
    => /\ limit_or_timeout_error = "PyIPTimeoutError"
       /\ (pc = "done" /\ default_value = None
               => outcome = Raise("PyIPTimeoutError"))

C7_Witness ==
    /\ EndedOnFailure
    /\ Exceeded(eval_time) /\ LimitReached
    /\ tries > limit[1]
    /\ default_value = None
    /\ limit_or_timeout_error = "PyIPTimeoutError"
    /\ outcome = Raise("PyIPTimeoutError")

\* C9: an exception raised by the validation function never leaves
\* _generic_input: after the validator raised, the invocation is asking the
\* evaluator, prompting again, or has ended with the default or with
\* PyIPTimeoutError / RetryLimitError.
C9_ValidatorErrorNeverEscapes ==
    /\ outcome.exc \notin ValidatorErrors
    /\ exc \in ValidatorErrors /\ eval_tries = tries /\ ~validated
       /\ pc \notin {"on_failure"} =>
           \/ pc = "prompt" /\ outcome = NoOutcome
           \/ pc = "done" /\ outcome = Return(default_value)
                          /\ default_value # None
           \/ pc = "done" /\ outcome.kind = "raise"
                          /\ outcome.exc \in BudgetErrors

C9_Witness ==
    /\ EndedOnFailure
    /\ exc = "ValidationError"
    /\ tries = 2
    /\ outcome = Raise("RetryLimitError")

\* C10: an exception raised by apply_func or by post_validate_apply_func
\* reaches the caller as it is: the invocation ends at once with that
\* exception, the evaluator is not asked about the attempt, and a configured
\* default does not replace it.
C10_TransformErrorsPropagate ==
    /\ exc = "ApplyFuncError" =>
           /\ pc = "done"
           /\ outcome = Raise("ApplyFuncError")
           /\ eval_tries # tries
    /\ exc = "PostFuncError" =>
           /\ pc = "done"
           /\ outcome = Raise("PostFuncError")
           /\ eval_tries # tries

C10_Witness ==
    /\ exc = "ApplyFuncError"
    /\ default_value # None
    /\ limit = Some(1)
    /\ tries = 1
    /\ outcome = Raise("ApplyFuncError")

\* an argument the parameter checks are meant to reject: a wrong type, or
\* a mask of several characters
Malformed ==
    \/ ill_typed # {}
    \/ password_mask # None /\ Len(password_mask[1]) > 1

\* C11: a malformed configuration raises PyInputPlusError before any prompt
\* is shown or any read is made (tries stays 0), also when a default is
\* configured.
C11_MalformedConfigurationRaisesFirst ==
    Malformed =>
        /\ pc \in {"validate_params", "done"}
        /\ tries = 0 /\ reads = 0
        /\ outcome \in {NoOutcome, Raise("PyInputPlusError")}
        /\ (pc = "done" <=> outcome = Raise("PyInputPlusError"))

C11_Witness ==
    /\ ill_typed = {"validation_func"}
    /\ default_value # None
    /\ limit = Some(0) /\ timeout = Some(0)
    /\ now > 0
    /\ outcome = Raise("PyInputPlusError")

\* C12 as stated: every mask that is not None and whose length is not
\* exactly 1 (the empty string too) is rejected with PyInputPlusError.
C12_MaskExactlyOneCharacter ==
    password_mask # None /\ Len(password_mask[1]) # 1 =>
        /\ pc \in {"validate_params", "done"}
        /\ (pc = "done" => outcome = Raise("PyInputPlusError"))

\* C12 amended: a mask that is not None is rejected with PyInputPlusError
\* when it is no str or is longer than one character; the empty string is
\* accepted like a one-character mask.
C12_MaskAtMostOneCharacter ==
    /\ password_mask # None
       /\ ("password_mask" \in ill_typed \/ Len(password_mask[1]) > 1) =>
           /\ pc \in {"validate_params", "done"}
           /\ (pc = "done" => outcome = Raise("PyInputPlusError"))
    /\ password_mask # None /\ Len(password_mask[1]) <= 1 /\ ill_typed = {} =>
           /\ outcome # Raise("PyInputPlusError")
           /\ via # "params"

C12_Witness ==
    /\ password_mask = <<"**">>
    /\ ill_typed = {}
    /\ pc = "done"
    /\ outcome = Raise("PyInputPlusError")

\* the value validation left in user_input: the replacement the validator
\* returned, or the value it was called on when it returned None
ValidatedValue ==
    IF possible_new_user_input # None THEN possible_new_user_input
    ELSE validation_arg

\* C13: when validation succeeds and the validator returns a replacement,
\* the invocation returns the replacement (after the post-validation
\* transform, if any), not the value the validator was called on; when the
\* validator returns None that value is kept.
C13_ReplacementIsReturned ==
    EndedOnSuccess /\ ~Exceeded(check_time) /\ outcome.kind = "return" =>
        outcome = Return(IF post_validate_apply_func # None
                         THEN post_validate_apply_func \o ValidatedValue
                         ELSE ValidatedValue)

C13_Witness ==
    /\ line = <<"5">>
    /\ validation_arg = <<"5">>
    /\ possible_new_user_input = <<"norm", "5">>
    /\ outcome = Return(<<"f", "norm", "5">>)

\* the attempt whose failure was handled last found both budgets unspent:
\* tries < limit and elapsed time < timeout, for the budgets that are set
WithinBudgets ==
    /\ limit # None => tries < limit[1]
    /\ timeout # None => eval_time[1] - start_time < timeout[1]

\* C14: a failed attempt with tries < limit and elapsed time < timeout goes
\* back to the prompt with no error raised and nothing returned, and from
\* the prompt exactly one read is made before anything else happens.
C14_FailureWithinBudgetsReprompts ==
    [][ /\ (pc = "on_failure" /\ pc' # "on_failure" /\ WithinBudgets)
            => /\ pc' = "prompt"
               /\ outcome' = NoOutcome
               /\ tries' = tries /\ reads' = reads
        /\ (pc = "prompt" /\ pc' # "prompt")
            => /\ pc' = "pre_transform"
               /\ reads' = reads + 1 /\ tries' = tries + 1
               /\ outcome' = NoOutcome ]_vars

C14_Witness ==
    /\ limit = Some(2) /\ timeout = Some(2)
    /\ eval_tries = 1 /\ eval_time[1] - start_time = 1
    /\ exc \in ValidatorErrors
    /\ pc = "pre_transform"
    /\ tries = 2 /\ reads = 2
    /\ outcome = NoOutcome

\* C15: with limit = L >= 1, no timeout and no default, an invocation whose
\* attempts all fail validation is prompted again after each of the first
\* L-1 failures and raises RetryLimitError on the L-th, after exactly L
\* reads (tries = L).
C15_RetryLimitOnLthFailure ==
    limit # None /\ limit[1] >= 1 /\ timeout = None /\ default_value = None =>
        /\ (exc \in ValidatorErrors /\ eval_tries = tries /\ ~validated
             /\ pc # "on_failure")
            => IF tries < limit[1]
               THEN pc = "prompt" /\ outcome = NoOutcome
               ELSE /\ pc = "done" /\ outcome = Raise("RetryLimitError")
                    /\ tries = limit[1] /\ reads = limit[1]
        /\ outcome = Raise("RetryLimitError")
            => tries = limit[1] /\ reads = limit[1]

C15_Witness ==
    /\ limit = Some(2) /\ timeout = None /\ default_value = None
    /\ tries = 2 /\ reads = 2
    /\ EndedOnFailure
    /\ outcome = Raise("RetryLimitError")

\* C16: with a limit, no timeout exceeded and no transforms, an invocation
\* whose attempt k is the first to pass validation, the validator returning
\* None, returns the line read on attempt k with tries = k <= limit: the
\* attempts before it all failed and were put to the evaluator.
C16_FirstValidAttemptIsReturned ==
    /\ limit # None /\ apply_func = None /\ post_validate_apply_func = None
    /\ EndedOnSuccess /\ possible_new_user_input = None
    /\ ~Exceeded(check_time)
    => /\ outcome = Return(line)
       /\ tries = reads
       /\ eval_tries = reads - 1
       /\ limit[1] >= 1 => reads <= limit[1]

C16_Witness ==
    /\ limit = Some(2) /\ timeout = None
    /\ apply_func = None /\ post_validate_apply_func = None
    /\ reads = 2 /\ tries = 2 /\ eval_tries = 1
    /\ validated /\ possible_new_user_input = None
    /\ line = <<"abc">>
    /\ outcome = Return(<<"abc">>)

\* the last read was completed more than timeout seconds after start_time
ReadAfterTimeout ==
    timeout # None /\ read_time # None
    /\ read_time[1] - start_time > timeout[1]

\* the way a timeout ends an invocation
TimeoutOutcome ==
    IF default_value # None THEN Return(default_value)
    ELSE Raise("PyIPTimeoutError")

\* C17 as stated: a read completed after the timeout has elapsed ends the
\* invocation with PyIPTimeoutError, or with the default when one is
\* configured, and no prompt follows it.
C17_ReadAfterTimeoutEndsInTimeout ==
    ReadAfterTimeout =>
        /\ pc # "prompt"
        /\ pc = "done" => outcome = TimeoutOutcome

\* C17 amended: a read completed after the timeout has elapsed is the last
\* one; the invocation ends with PyIPTimeoutError, or with the default when
\* one is configured, unless apply_func raises on that attempt, and then
\* with the exception apply_func raised.
C17_ReadAfterTimeoutIsTheLast ==
    ReadAfterTimeout =>
        /\ pc # "prompt"
        /\ pc = "done" =>
               outcome = IF exc = "ApplyFuncError" THEN Raise("ApplyFuncError")
                         ELSE TimeoutOutcome

C17_Witness ==
    /\ ReadAfterTimeout
    /\ limit = None /\ default_value = None
    /\ reads = 2
    /\ EndedOnFailure
    /\ outcome = Raise("PyIPTimeoutError")

\* C18: when validation succeeds but the timeout has elapsed at the check
\* that follows it, the validated value is not returned and the
\* post-validation transform is not called: the default is returned if one
\* is configured, else PyIPTimeoutError is raised.
C18_TimeoutTrumpsValidInput ==
    EndedOnSuccess /\ Exceeded(check_time) =>
        /\ post_arg = None
        /\ outcome = TimeoutOutcome
        /\ outcome # Return(user_input)

C18_Witness ==
    /\ EndedOnSuccess /\ Exceeded(check_time) /\ ~ReadAfterTimeout
    /\ post_validate_apply_func # None
    /\ default_value = None
    /\ outcome = Raise("PyIPTimeoutError")

\* C19: when validation succeeds within the timeout, the invocation returns
\* post_validate_apply_func(validated value) if a post-validation transform
\* is configured (its exception if it raises), and the validated value as it
\* is otherwise.
C19_PostTransformOfValidatedValue ==
    EndedOnSuccess /\ ~Exceeded(check_time) =>
        IF post_validate_apply_func = None
        THEN post_arg = None /\ outcome = Return(user_input)
        ELSE /\ post_arg = Some(user_input)
             /\ \/ outcome = Return(post_validate_apply_func \o user_input)
                \/ outcome = Raise("PostFuncError") /\ exc = "PostFuncError"

C19_Witness ==
    /\ post_validate_apply_func = <<"f">>
    /\ apply_func = None
    /\ timeout = Some(1) /\ check_time = Some(start_time + 1)
    /\ user_input = <<"5">>
    /\ outcome = Return(<<"f", "5">>)

\* the three kinds of outcome
ValueOutcome ==
    outcome.kind = "return" /\ via = "value" /\ validated
DefaultOutcome ==
    /\ outcome.kind = "return"
    /\ via \in {"failure_default", "timeout_default"}
    /\ outcome.value = default_value
ErrorOutcome ==
    /\ outcome.kind = "raise"
    /\ outcome.exc \in {"PyInputPlusError", "PyIPTimeoutError",
                        "RetryLimitError", "ApplyFuncError", "PostFuncError"}

\* C20: an invocation that has ended has exactly one outcome, a validated
\* value, the default or a raised error, and an invocation has an outcome
\* only when it has ended; after that no prompt, read, validation or
\* evaluation happens.
C20_OneTerminalOutcome ==
    /\ [](pc = "done" <=> outcome # NoOutcome)
    /\ [](pc = "done" =>
             \/ ValueOutcome /\ ~DefaultOutcome /\ ~ErrorOutcome
             \/ ~ValueOutcome /\ DefaultOutcome /\ ~ErrorOutcome
             \/ ~ValueOutcome /\ ~DefaultOutcome /\ ErrorOutcome)
    /\ [][pc = "done" => UNCHANGED <<loop_vars, hist_vars, attempt_vars>>]_vars

C20_Witness ==
    /\ pc = "done"
    /\ DefaultOutcome
    /\ reads = 2
    /\ now = MaxClock

\* C25: tries starts at 0, never decreases, and goes up by exactly 1 with
\* each completed read, in the step that makes the read and before the
\* pre-transform and the validation of that attempt, whatever the attempt
\* leads to; at every validation call tries is the number of reads made.
C25_TriesCountsReads ==
    /\ [](tries = reads)
    /\ [](pc \in {"pre_transform", "validate"} => tries >= 1)
    /\ [][/\ tries' >= tries /\ tries' <= tries + 1
          /\ tries' - tries = reads' - reads
          /\ tries' = tries + 1 <=> pc = "prompt" /\ pc' = "pre_transform"
         ]_vars

C25_Witness ==
    /\ pc = "validate"
    /\ tries = 3 /\ reads = 3
    /\ exc \in ValidatorErrors
    /\ apply_func # None

\* C26: an attempt leads back to the prompt only from a validation failure
\* about which the evaluator answered None; an evaluator answer that is an
\* exception, a successful validation and a transform exception end the
\* invocation; reads are made one at a time, one from each prompt.
C26_OnlyFailureReprompts ==
    [][ /\ (pc' = "prompt" /\ pc \notin {"prompt", "validate_params"})
            => /\ pc = "on_failure"
               /\ ~validated /\ exc \in ValidatorErrors
               /\ eval_tries = tries
               /\ limit_or_timeout_error = "None"
        /\ (pc = "on_failure" /\ limit_or_timeout_error # "None")
            => pc' \in {"on_failure", "done"}
        /\ pc \in {"post_read_check", "post_transform"}
            => pc' \in {pc, "post_transform", "done"}
        /\ exc' \in {"ApplyFuncError", "PostFuncError"} => pc' = "done"
        /\ reads' # reads
            => reads' = reads + 1 /\ pc = "prompt" /\ pc' = "pre_transform"
        /\ (pc = "prompt" /\ pc' # "prompt") => reads' = reads + 1 ]_vars

C26_Witness ==
    /\ pc = "prompt"
    /\ reads = 2
    /\ timeout # None /\ limit = None
    /\ exc = "Exception"
    /\ limit_or_timeout_error = "None"

\* C27: the retry limit plays no part after a successful validation: the
\* evaluator is not asked about that attempt, the invocation does not end
\* with RetryLimitError, and unless the timeout is exceeded it ends with the
\* value (or with what the post-validation transform raises), whatever
\* tries and limit are.
C27_LimitOnlyAfterFailure ==
    validated =>
        /\ eval_tries # tries
        /\ outcome # Raise("RetryLimitError")
        /\ via \notin {"failure_default", "failure_raise"}
        /\ pc = "done" /\ ~Exceeded(check_time)
               => via \in {"value", "post_validate_apply_func"}

C27_Witness ==
    /\ validated
    /\ limit = Some(2) /\ tries = 2
    /\ default_value # None
    /\ post_validate_apply_func = None
    /\ outcome = Return(user_input)

\* C28: on a failed attempt that exceeds no budget the message of the
\* validation exception is printed after the read of that attempt and
\* before the next prompt: at the prompt of every attempt but the first the
\* last thing printed is the message of the failure just handled, and one
\* message has been printed for each read.
C28_MessageBeforeReprompt ==
    /\ [](pc = "prompt" /\ reads > 0
             => /\ displayed = <<"message", exc>>
                /\ exc \in ValidatorErrors
                /\ messages = reads)
    /\ [][pc = "on_failure" /\ pc' = "prompt"
             => /\ displayed = <<"prompt">>
                /\ displayed' = <<"message", exc>>
                /\ messages' = messages + 1]_vars
    /\ [][pc = "prompt" /\ pc' = "pre_transform"
             => displayed' = <<"prompt">> /\ messages' = messages]_vars

C28_Witness ==
    /\ pc = "prompt"
    /\ limit = Some(2) /\ timeout = Some(1)
    /\ reads = 1 /\ messages = 1
    /\ displayed = <<"message", "ValidationError">>

\* C29: the message of the validation exception is printed on the last
\* failed attempt too, the one on which the evaluator answers with the
\* timeout or the retry limit, before the error is raised or the default
\* returned.
C29_MessageOnFinalFailure ==
    EndedOnFailure =>
        /\ displayed = <<"message", exc>>
        /\ messages = reads

C29_Witness ==
    /\ EndedOnFailure
    /\ limit = Some(2)
    /\ reads = 2 /\ messages = 2
    /\ displayed = <<"message", "ValidationError">>
    /\ outcome = Raise("RetryLimitError")

\* the invocation ended because of the timeout
EndedByTimeout ==
    \/ via \in {"timeout_default", "timeout_raise"}
    \/ /\ via \in {"failure_default", "failure_raise"}
       /\ limit_or_timeout_error = "PyIPTimeoutError"

\* C30: the timeout is looked at only after a completed read: an
\* invocation that ends because of it has made at least one read, and
\* found the timeout exceeded after its last read; a prompt is followed by
\* the read and by nothing else, and the read can be made however much
\* time has passed, with timeout 0 too.
C30_TimeoutIsCooperative ==
    /\ [](EndedByTimeout =>
             /\ reads >= 1
             /\ \/ validated /\ check_time[1] >= read_time[1]
                \/ ~validated /\ eval_time[1] >= read_time[1]
                              /\ eval_tries = reads)
    /\ [](pc = "prompt" /\ tries < MaxTries => ENABLED PromptAndRead)
    /\ [][pc = "prompt"
             => /\ pc' \in {"prompt", "pre_transform"}
                /\ outcome' = NoOutcome]_vars

C30_Witness ==
    /\ timeout = Some(0)
    /\ reads = 1
    /\ start_time = 0 /\ read_time = Some(2)
    /\ via = "timeout_raise"
    /\ outcome = Raise("PyIPTimeoutError")

\* C31: all the reads of an invocation are made with one read function:
\* input() when password_mask is None, pwinput() when it is not.
C31_OneReadStrategy ==
    /\ Cardinality(primitives) <= 1
    /\ reads = 0 => primitives = {}
    /\ reads > 0 =>
           primitives = {IF password_mask = None THEN "input" ELSE "pwinput"}

C31_Witness ==
    /\ password_mask = <<"">>
    /\ reads = 3
    /\ primitives = {"pwinput"}

\* C32: no step changes the configuration; start_time is assigned the clock
\* when the loop is entered and no step changes it afterwards, so that it is
\* never later than a read.
C32_ConfigurationAndStartTimeFixed ==
    /\ [][/\ UNCHANGED cfg_vars
          /\ pc # "validate_params" => start_time' = start_time
          /\ pc = "validate_params" /\ pc' = "prompt" => start_time' = now
         ]_vars
    /\ [](read_time # None => start_time <= read_time[1])

C32_Witness ==
    /\ start_time = 1 /\ now = 3
    /\ timeout = Some(2)
    /\ reads = 2
    /\ pc = "on_failure"

\* C34: with apply_func configured the validation function is called on
\* apply_func(line read), and when it returns None that value is what the
\* invocation returns, or what the post-validation transform is called on.
C34_ValidatorSeesTransformOutput ==
    apply_func # None =>
        /\ validation_arg # None => validation_arg = apply_func \o line
        /\ EndedOnSuccess /\ ~Exceeded(check_time)
             /\ possible_new_user_input = None
           => IF post_validate_apply_func = None
              THEN outcome = Return(apply_func \o line)
              ELSE post_arg = Some(apply_func \o line)

C34_Witness ==
    /\ apply_func = <<"f">>
    /\ line = <<"abc">>
    /\ validation_arg = <<"f", "abc">>
    /\ possible_new_user_input = None
    /\ post_validate_apply_func = None
    /\ outcome = Return(<<"f", "abc">>)

\* max(1, l)
AtLeastOne(l) == IF l < 1 THEN 1 ELSE l

\* C35: with a limit set, tries and the number of reads never exceed
\* max(1, limit), whatever timeout, default and validator are.
C35_ReadsBoundedByLimit ==
    limit # None =>
        /\ tries <= AtLeastOne(limit[1])
        /\ reads <= AtLeastOne(limit[1])

C35_Witness ==
    /\ limit = Some(2)
    /\ timeout # None /\ default_value # None
    /\ reads = 2 /\ tries = 2
    /\ EndedOnFailure

\* C36 as stated: with limit <= 0 one read is made; a first input that
\* passes validation is returned, and one that fails ends the invocation
\* with RetryLimitError, or with the default when one is configured.
C36_NonPositiveLimitIsOneAttempt ==
    limit # None /\ limit[1] <= 0 =>
        /\ tries <= 1
        /\ EndedOnSuccess => via \in {"value", "post_validate_apply_func"}
        /\ EndedOnFailure =>
               outcome = IF default_value # None THEN Return(default_value)
                         ELSE Raise("RetryLimitError")

\* C36 amended: with limit <= 0 one read is made; unless the timeout is
\* exceeded, a first input that passes validation is returned and one that
\* fails ends the invocation with RetryLimitError, or with the default when
\* one is configured; when the timeout is exceeded the invocation ends
\* after that read with PyIPTimeoutError, or with the default.
C36_NonPositiveLimitOneAttemptOrTimeout ==
    limit # None /\ limit[1] <= 0 =>
        /\ tries <= 1
        /\ pc = "prompt" => reads = 0
        /\ EndedOnSuccess =>
               IF Exceeded(check_time) THEN outcome = TimeoutOutcome
               ELSE via \in {"value", "post_validate_apply_func"}
        /\ EndedOnFailure =>
               outcome = IF default_value # None THEN Return(default_value)
                         ELSE IF Exceeded(eval_time)
                              THEN Raise("PyIPTimeoutError")
                              ELSE Raise("RetryLimitError")

C36_Witness ==
    /\ limit = Some(-1)
    /\ timeout = Some(1) /\ default_value = None
    /\ reads = 1
    /\ EndedOnFailure
    /\ outcome = Raise("RetryLimitError")

\* C38: with neither timeout nor limit, a failed attempt always leads back
\* to the prompt: the invocation ends only on an input that passes
\* validation or on an exception of a transform (or of the parameter
\* checks), and the default is never returned.
C38_NoBudgetNeverEndsOnFailure ==
    timeout = None /\ limit = None =>
        /\ via \notin {"failure_default", "failure_raise", "timeout_default",
                        "timeout_raise"}
        /\ outcome.kind = "return" => validated /\ via = "value"
        /\ pc = "done" => validated \/ exc = "ApplyFuncError" \/ via = "params"
        /\ (exc \in ValidatorErrors /\ eval_tries = tries /\ ~validated
              /\ pc # "on_failure")
           => pc = "prompt" /\ outcome = NoOutcome

C38_Witness ==
    /\ timeout = None /\ limit = None
    /\ default_value # None
    /\ pc = "prompt"
    /\ reads = MaxTries /\ messages = MaxTries
    /\ now = MaxClock
    /\ outcome = NoOutcome

\* the invocation ended on an exceeded budget
EndedOnBudget ==
    \/ EndedOnFailure
    \/ EndedOnSuccess /\ Exceeded(check_time)

\* C39: on an exceeded budget the default is returned exactly when
\* default_value is not None, the empty string included; with
\* default_value None the timeout or retry-limit error is raised.
C39_DefaultIsConfiguredIffNotNone ==
    EndedOnBudget =>
        IF default_value # None
        THEN outcome = Return(default_value)
        ELSE /\ outcome.kind = "raise"
             /\ outcome.exc \in BudgetErrors

C39_Witness ==
    /\ default_value = <<"">>
    /\ EndedOnSuccess /\ Exceeded(check_time)
    /\ via = "timeout_default"
    /\ outcome = Return(<<"">>)

(***************************************************************************)
(* Properties of _check_limit_and_timeout, checked under SpecEval.         *)
(***************************************************************************)
\* the i-th logged call found more than timeout seconds elapsed
ElapsedOver(i) ==
    timeout # None /\ ev_log[i].time - start_time > timeout[1]

\* C5: the evaluator answers with the timeout exactly when timeout is set
\* and current_time - start_time > timeout when it is called; elapsed time
\* equal to the timeout is no timeout.
C5_TimeoutIffStrictlyExceeded ==
    \A i \in DOMAIN ev_log :
        (ev_log[i].answer = "PyIPTimeoutError") <=> ElapsedOver(i)

C5_Witness ==
    /\ Len(ev_log) = 2
    /\ timeout # None
    /\ ev_log[1].time - start_time = timeout[1]
    /\ ev_log[1].answer # "PyIPTimeoutError"
    /\ ev_log[2].answer = "PyIPTimeoutError"

\* C6: when the timeout is not set or not exceeded, the evaluator answers
\* with the retry limit exactly when limit is set and tries >= limit, and
\* with None in every other case.
C6_LimitIffReached ==
    \A i \in DOMAIN ev_log :
        ~ElapsedOver(i) =>
            /\ (ev_log[i].answer = "RetryLimitError")
                   <=> (limit # None /\ tries >= limit[1])
            /\ (ev_log[i].answer = "None")
                   <=> ~(limit # None /\ tries >= limit[1])

C6_Witness ==
    /\ Len(ev_log) = 1
    /\ timeout # None /\ ~ElapsedOver(1)
    /\ limit # None /\ tries = limit[1]
    /\ ev_log[1].answer = "RetryLimitError"

C40_EvaluatorIsMonotone ==
    /\ \A i, j \in DOMAIN ev_log :
           /\ ev_log[i].args = ev_log[j].args
           /\ ev_log[i].time <= ev_log[j].time
           /\ ev_log[i].answer = "PyIPTimeoutError"
           => ev_log[j].answer = "PyIPTimeoutError"
    /\ \A i \in DOMAIN ev_log :
           ev_log[i].time = now /\ ev_log[i].answer # "None" =>
               \A n \in ev_log[i].args[3]..(MaxTries + 1) :
                   _check_limit_and_timeout(ev_log[i].args[1],
                       ev_log[i].args[2], n, ev_log[i].args[4]) # "None"

C40_Witness ==
    /\ Len(ev_log) = 2
    /\ limit # None /\ tries < limit[1]
    /\ ev_log[1].answer = "PyIPTimeoutError"
    /\ ev_log[2].time > ev_log[1].time
    /\ ev_log[2].answer = "PyIPTimeoutError"

(***************************************************************************)
(* Termination, checked under SpecLive.                                    *)
(***************************************************************************)
\* C37: when every call returns, an invocation with a limit eventually
\* ends; and an invocation with a timeout, once the clock has passed
\* start_time + timeout and a further read can complete, eventually ends.
C37_BudgetsEndTheInvocation ==
    /\ (limit # None) ~> (pc = "done")
    /\ (/\ timeout # None
        /\ pc # "validate_params"
        /\ start_time + timeout[1] < now
        /\ tries < MaxTries) ~> (pc = "done")

C37_Witness ==
    /\ limit = Some(MaxLimit) /\ timeout = None /\ default_value = None
    /\ reads = MaxLimit /\ messages = MaxLimit
    /\ pc = "done" /\ outcome = Raise("RetryLimitError")

(***************************************************************************)
(* Properties of two invocations side by side, checked under SpecTwo.      *)
(***************************************************************************)
\* what an ended invocation must have ended with, told from its own
\* configuration, the inputs it got and the clock readings it made
OwnOutcome(c) ==
    LET late(t) == c.timeout # None /\ t[1] - c.start_time > c.timeout[1]
        budget(e) == IF c.default_value # None THEN Return(c.default_value)
                     ELSE Raise(e)
    IN  IF c.validated
        THEN IF late(c.check_time) THEN budget("PyIPTimeoutError")
             ELSE Return(<<"5">>)
        ELSE IF late(c.eval_time) THEN budget("PyIPTimeoutError")
             ELSE budget("RetryLimitError")

\* C33: of two invocations running interleaved, each keeps a tries and a
\* start_time of its own: tries is the number of its own reads, start_time
\* the clock at its own entry, a step of one leaves the other as it was,
\* and each ends as its own configuration, inputs and clock readings
\* dictate, a failed attempt ending it only on its own exceeded budget.
C33_InvocationsDoNotInterfere ==
    /\ [](\A i \in Invocations :
             LET c == calls[i] IN
             /\ c.tries = c.reads
             /\ c.pc # "validate_params" => c.start_time = c.entered[1]
             /\ c.pc = "done" =>
                    /\ c.outcome = OwnOutcome(c)
                    /\ ~c.validated =>
                           \/ /\ c.timeout # None
                              /\ c.eval_time[1] - c.entered[1] > c.timeout[1]
                           \/ c.limit # None /\ c.reads >= c.limit[1])
    /\ [][\A i, j \in Invocations :
              i # j /\ calls'[i] # calls[i] => calls'[j] = calls[j]]_vars

C33_Witness ==
    /\ calls["A"].limit = Some(1) /\ calls["B"].limit = Some(2)
    /\ calls["A"].pc = "done" /\ calls["B"].pc = "done"
    /\ calls["A"].reads = 1 /\ calls["B"].reads = 2
    /\ calls["A"].start_time = 0 /\ calls["B"].start_time = 1
    /\ calls["A"].outcome = Raise("RetryLimitError")
    /\ calls["B"].outcome = Return(<<"N/A">>)
    /\ calls["B"].eval_time = Some(1)
    /\ calls["A"].eval_time = Some(2)

(***************************************************************************)
(* Properties of the wrappers, checked under SpecWrapperResult.            *)
(***************************************************************************)
\* C4: when the loop returned the default because a budget was exceeded,
\* inputInt, inputFloat, inputMenu, inputYesNo and inputBool do not call
\* postValidateApplyFunc on it.
C4_PostValidateNotCalledOnDefault ==
    via \in {"failure_default", "timeout_default"} => w_post_arg = None

\* C22: when the loop returned the default to inputMenu, inputYesNo or
\* inputBool because a budget was exceeded, the wrapper raises no
\* ValidationError, whatever the default is.
C22_DefaultNeedNotBeValid ==
    /\ wrapper \in {"inputMenu", "inputYesNo", "inputBool"}
    /\ via \in {"failure_default", "timeout_default"}
    => w_outcome # Raise("ValidationError")

(***************************************************************************)
(* Properties of the call a wrapper makes, checked under SpecWrapperCall.  *)
(***************************************************************************)
\* C21: the call a wrapper makes to _generic_input is accepted: every
\* keyword it passes is a parameter of _generic_input, and no TypeError is
\* raised.
C21_CallIsAccepted ==
    kwargs # {} =>
        /\ kwargs \subseteq Parameters
        /\ w_outcome # Raise("TypeError")

\* C24: inputPassword called without an explicit limit hands limit = 1 to
\* the loop.
C24_PasswordLimitDefaultsToOne ==
    /\ wrapper = "inputPassword" /\ "limit" \notin explicit
    /\ w_pc \in {"body", "in_loop"} \/ kwargs # {}
    => args.limit = Some(1)

(***************************************************************************)
(* Properties of inputChoice's validation closure, checked under           *)
(* SpecChoice.                                                             *)
(***************************************************************************)
\* C23: with caseSensitive = True the closure of inputChoice accepts a line
\* only if it is one of the choices, letter case included.
C23_CaseSensitiveRejectsOtherCase ==
    caseSensitive /\ reads > 0 /\ validated =>
        \E i \in DOMAIN choices : choices[i] = line[1]

====
